---------------------------- MODULE Spec2Model ----------------------------
(***************************************************************************)
(* State-machine model of sched/irq/irq_dispatch.c: the interrupt dispatch *)
(* trampoline irq_dispatch(), its INCR_COUNT and CALL_VECTOR macros, under *)
(* every build configuration the pre-processor conditionals select.        *)
(*                                                                         *)
(* 32-bit and 64-bit C integers are kept at their width.  TLC's integers   *)
(* are narrower than uint32_t, so an unsigned word is a little-endian      *)
(* sequence of 16-bit limbs: uint32_t is <<lo, hi>>, uint64_t has 4 limbs. *)
(***************************************************************************)
EXTENDS Integers, Sequences, FiniteSets, TLC

(***************************************************************************)
(* Program constants and bounds                                            *)
(***************************************************************************)
\* Number of hardware interrupt lines (arch constant used at line 183).
NR_IRQS == 2
\* Length of the vector table in minimal-vector-table builds (line 187).
CONFIG_ARCH_NUSER_INTERRUPTS == 1
\* Number of CPUs indexing g_running_tasks[] (line 224).
CONFIG_SMP_NCPUS == 2
\* One limb of an unsigned word holds 16 bits.
Limb == 65536
\* Nanoseconds per second: the range of timespec.tv_nsec.
NSEC_PER_SEC == 1000000000

\* Bound on the number of irq_dispatch() calls in one behaviour.
MaxDispatch == 2
\* Bound on the number of attach/detach operations in one behaviour.
MaxAttach == 1

CPUS == 0 .. (CONFIG_SMP_NCPUS - 1)
\* IRQ numbers handed to irq_dispatch: every line, one past the last, and a
\* negative number.
Irqs == (-1) .. NR_IRQS
\* The saved register frame irq_dispatch is handed on CPU c: the one the
\* entry code pushed on that CPU's interrupt stack.
Context(c) == <<"regs", c>>
NULL == "NULL"
irq_unexpected_isr == "irq_unexpected_isr"
Handlers == {"isr1", "isr2"}
Args == {"arg1", "arg2"}
\* Tasks this_task() can return on a CPU: its idle task or a user task.
Tasks == {"idle", "task1"}
\* What a vector may do: run for d nanoseconds (the second one for more than
\* a second) and leave a task current on its CPU.
VectorRuns ==
  { [d |-> 250, task |-> "task1"],
    [d |-> 1000000100, task |-> "idle"] }

(***************************************************************************)
(* Unsigned arithmetic at C width                                          *)
(***************************************************************************)
ZeroWord == <<0, 0>>
MaxWord == <<Limb - 1, Limb - 1>>
ZeroCount == <<0, 0, 0, 0>>

\* A non-negative int below 2^31 as a uint32_t.
Word(n) == <<n % Limb, n \div Limb>>

\* The conversion (unsigned)i of a C int: two's complement for i < 0.
ToUnsigned(i) ==
  IF i >= 0 THEN Word(i)
  ELSE <<(Limb - 1) - (((-i) - 1) % Limb), (Limb - 1) - (((-i) - 1) \div Limb)>>

\* ++x on an unsigned integer of Len(s) limbs: ripple carry, the carry out of
\* the top limb is dropped.
RECURSIVE Incr(_)
Incr(s) ==
  IF s = <<>> THEN <<>>
  ELSE IF Head(s) = Limb - 1 THEN <<0>> \o Incr(Tail(s))
  ELSE <<Head(s) + 1>> \o Tail(s)

\* a < b on uint32_t.
WordLess(a, b) == a[2] < b[2] \/ (a[2] = b[2] /\ a[1] < b[1])

\* a + n on uint32_t (n a non-negative int below 2^31), modulo 2^32.
WordAdd(a, n) ==
  LET lo == a[1] + (n % Limb)
      hi == a[2] + (n \div Limb) + (lo \div Limb)
  IN  <<lo % Limb, hi % Limb>>

\* a - b on uint32_t that stops at zero instead of wrapping.
WordSub_saturating(a, b) ==
  IF WordLess(a, b) THEN ZeroWord
  ELSE <<(a[1] - b[1]) % Limb,
         (a[2] - b[2] - (IF a[1] < b[1] THEN 1 ELSE 0)) % Limb>>

\* a - b on uint32_t, modulo 2^32.
WordSub(a, b) ==
  LET lo == a[1] - b[1]
      borrow == IF lo < 0 THEN 1 ELSE 0
  IN  <<lo % Limb, (a[2] - b[2] - borrow) % Limb>>

(***************************************************************************)
(* State                                                                   *)
(***************************************************************************)
VARIABLES
  cfg,              \* the build configuration (fixed at build time)
  g_irqmap,         \* IRQ number -> table index (minimal vector table)
  g_irqvector,      \* the vector table: handler, arg, count, time per slot
  g_running_tasks,  \* per-CPU "running" task, for crash reports
  curtask,          \* what this_task() returns on each CPU
  reg,              \* the attach/detach operation in progress
  frame,            \* per CPU: irq_dispatch's position, parameters and locals
  ndispatch,        \* number of irq_dispatch calls so far
  nattach,          \* number of attach/detach operations so far
  h_count0,         \* history: each slot's logical count at start
  h_ndisp,          \* history: dispatches that resolved to each slot
  h_maxnsec,        \* history: largest tv_nsec of a call delta per slot
  h_log,            \* history: per slot, registrations and calls in order
  h_ticks           \* history: per CPU, how far the clock advanced during
                    \* the vector call of the dispatch observed step by step

vars == <<cfg, g_irqmap, g_irqvector, g_running_tasks, curtask, reg, frame,
          ndispatch, nattach, h_count0, h_ndisp, h_maxnsec, h_log, h_ticks>>

\* Build-time toggles.
IRQMONITOR == cfg.CONFIG_SCHED_IRQMONITOR
HAVE_LONG_LONG == cfg.CONFIG_HAVE_LONG_LONG
MINIMAL_VECTORTABLE == cfg.CONFIG_ARCH_MINIMAL_VECTORTABLE
HAVE_PLATFORM_GETTIME == cfg.HAVE_PLATFORM_GETTIME
COLLECT_IRQ_RANDOMNESS == cfg.CONFIG_CRYPTO_RANDOM_POOL_COLLECT_IRQ_RANDOMNESS

\* The build configurations.  The counter representation and the clock exist
\* only in monitoring builds.
Configs ==
  { c \in [CONFIG_SCHED_IRQMONITOR : BOOLEAN,
           CONFIG_HAVE_LONG_LONG : BOOLEAN,
           CONFIG_ARCH_MINIMAL_VECTORTABLE : BOOLEAN,
           HAVE_PLATFORM_GETTIME : BOOLEAN,
           CONFIG_CRYPTO_RANDOM_POOL_COLLECT_IRQ_RANDOMNESS : BOOLEAN] :
      ~c.CONFIG_SCHED_IRQMONITOR =>
         (~c.CONFIG_HAVE_LONG_LONG /\ ~c.HAVE_PLATFORM_GETTIME) }

\* Number of slots of g_irqvector[]: NR_IRQS, or CONFIG_ARCH_NUSER_INTERRUPTS
\* with the minimal vector table.
TableSize == IF MINIMAL_VECTORTABLE THEN CONFIG_ARCH_NUSER_INTERRUPTS ELSE NR_IRQS
Slots == 0 .. (TableSize - 1)

\* Whether the unsigned index n addresses a slot of g_irqvector[].
InTable(n) == n[2] = 0 /\ n[1] < TableSize

\* The IRQ maps of the minimal-vector-table builds: the first lines on their
\* own slots with the rest unassigned, and the lines shifted down by one with
\* line 0 unassigned (its entry beyond the first out-of-table index).
IrqMaps ==
  { [i \in 0 .. (NR_IRQS - 1) |->
       IF i < CONFIG_ARCH_NUSER_INTERRUPTS THEN i ELSE CONFIG_ARCH_NUSER_INTERRUPTS],
    [i \in 0 .. (NR_IRQS - 1) |->
       IF i = 0 THEN CONFIG_ARCH_NUSER_INTERRUPTS + 1 ELSE i - 1] }

\* Logical counts a slot may have accumulated when observation starts: none,
\* one short of the low word's wrap, one short of the 64-bit wrap.
CountSamples ==
  { ZeroCount,
    <<Limb - 1, Limb - 1, 0, 0>>,
    <<Limb - 1, Limb - 1, Limb - 1, Limb - 1>> }

\* Readings of up_critmon_gettime() at the start of a call: zero (timer not
\* yet initialised) and one just below the 32-bit wrap.
TickSamples == { ZeroWord, <<Limb - 100, Limb - 1>> }
\* Readings of clock_systimespec() at the start of a call.
TimespecSamples ==
  { [tv_sec |-> 0, tv_nsec |-> 100],
    [tv_sec |-> 5, tv_nsec |-> NSEC_PER_SEC - 50] }

\* struct irq_info_s: the count is one 64-bit field or the lscount/mscount
\* pair, depending on CONFIG_HAVE_LONG_LONG.
EmptySlot == [handler |-> NULL, arg |-> NULL, count |-> ZeroCount,
              lscount |-> ZeroWord, mscount |-> ZeroWord, time |-> 0]

\* A slot whose counter holds the logical value n (4 limbs).
SlotWithCount(n) ==
  IF HAVE_LONG_LONG THEN [EmptySlot EXCEPT !.count = n]
  ELSE [EmptySlot EXCEPT !.lscount = <<n[1], n[2]>>, !.mscount = <<n[3], n[4]>>]

\* irq_dispatch's frame on a CPU that is not dispatching: pc is the position
\* in the function; irq and context are its parameters; vector, arg and ndx
\* its locals; tmp the value a read-modify-write has loaded; start, stop and
\* delta are CALL_VECTOR's locals; trace lists what this dispatch has done.
IdleFrame ==
  [pc |-> "idle", irq |-> 0, context |-> NULL, vector |-> NULL, arg |-> NULL,
   ndx |-> ZeroWord, tmp |-> 0, start |-> 0, stop |-> 0, delta |-> 0,
   trace |-> <<>>]

Init ==
  /\ cfg \in Configs
  /\ g_irqmap \in IF MINIMAL_VECTORTABLE THEN IrqMaps
                  ELSE {[i \in 0 .. (NR_IRQS - 1) |-> i]}
  /\ h_count0 \in { f \in [Slots -> CountSamples] :
                      /\ \A s \in Slots : s # 0 => f[s] = ZeroCount
                      /\ ~IRQMONITOR => f[0] = ZeroCount }
  /\ g_irqvector = [s \in Slots |-> SlotWithCount(h_count0[s])]
  /\ g_running_tasks = [c \in CPUS |-> "idle"]
  /\ curtask = [c \in CPUS |-> "idle"]
  /\ reg = [pc |-> "idle", ndx |-> 0, handler |-> NULL, arg |-> NULL]
  /\ frame = [c \in CPUS |-> IdleFrame]
  /\ ndispatch = 0
  /\ nattach = 0
  /\ h_ndisp = [s \in Slots |-> 0]
  /\ h_maxnsec = [s \in Slots |-> 0]
  /\ h_log = [s \in Slots |-> <<>>]
  /\ h_ticks = [c \in CPUS |-> 0]

(***************************************************************************)
(* External collaborators                                                  *)
(***************************************************************************)
\* up_critmon_convert(elapsed, &ts): elapsed ticks to a timespec, one tick
\* being one nanosecond.  elapsed / 2 fits TLC's integers.
up_critmon_convert(elapsed) ==
  LET half == elapsed[2] * (Limb \div 2) + (elapsed[1] \div 2)
  IN  [tv_sec |-> half \div (NSEC_PER_SEC \div 2),
       tv_nsec |-> (half % (NSEC_PER_SEC \div 2)) * 2 + (elapsed[1] % 2)]

\* clock_timespec_subtract(ts1, ts2, &ts3): ts3 = ts1 - ts2, or zero when
\* ts1 is not later than ts2.
clock_timespec_subtract(ts1, ts2) ==
  IF ts1.tv_sec < ts2.tv_sec
    THEN [tv_sec |-> 0, tv_nsec |-> 0]
  ELSE IF ts1.tv_sec = ts2.tv_sec /\ ts1.tv_nsec <= ts2.tv_nsec
    THEN [tv_sec |-> 0, tv_nsec |-> 0]
  ELSE IF ts1.tv_nsec < ts2.tv_nsec
    THEN [tv_sec |-> ts1.tv_sec - ts2.tv_sec - 1,
          tv_nsec |-> (ts1.tv_nsec + NSEC_PER_SEC) - ts2.tv_nsec]
  ELSE [tv_sec |-> ts1.tv_sec - ts2.tv_sec,
        tv_nsec |-> ts1.tv_nsec - ts2.tv_nsec]

\* The system clock d nanoseconds after it read ts.
TimespecAfter(ts, d) ==
  LET n == ts.tv_nsec + (d % NSEC_PER_SEC)
  IN  [tv_sec |-> ts.tv_sec + (d \div NSEC_PER_SEC) + (n \div NSEC_PER_SEC),
       tv_nsec |-> n % NSEC_PER_SEC]

\* What a read of g_irqvector[n].time returns when n is outside the table:
\* whatever the memory there holds.
StrayValues == {0, NSEC_PER_SEC - 1}

(***************************************************************************)
(* irq_dispatch as a machine.  A machine is what one CPU's dispatch works  *)
(* on: its frame f, the vector table vec, the running-task array running   *)
(* and the CPU's current task.  Each step below is one access to shared    *)
(* memory (or one call) and maps a machine to the next one.                *)
(***************************************************************************)
Machine(c) ==
  [f |-> frame[c], vec |-> g_irqvector, running |-> g_running_tasks,
   task |-> curtask[c]]

\* The machine at label l, with event e appended to the dispatch's trace.
At(m, l, e) == [m EXCEPT !.f.pc = l, !.f.trace = Append(@, e)]

\* Whether an IRQ number has a slot of the table: it is in [0, NR_IRQS) and,
\* with the minimal vector table, g_irqmap[] assigns it one.
Resolves(i) ==
  /\ 0 <= i /\ i < NR_IRQS
  /\ MINIMAL_VECTORTABLE => g_irqmap[i] < CONFIG_ARCH_NUSER_INTERRUPTS

\* The slot of an IRQ number that has one.
SlotOf(i) == IF MINIMAL_VECTORTABLE THEN g_irqmap[i] ELSE i

\* Where irq_dispatch continues after lines 182-207.
AfterLookup ==
  IF COLLECT_IRQ_RANDOMNESS THEN "random"
  ELSE IF IRQMONITOR THEN "probe_start" ELSE "call"

\* irq_dispatch without INCR_COUNT(ndx).
AtIncrCount_never == AfterLookup

\* Where irq_dispatch continues with INCR_COUNT(ndx), which is empty without
\* CONFIG_SCHED_IRQMONITOR.
AtIncrCount == IF IRQMONITOR THEN "incr" ELSE AfterLookup

\* Line 183: if ((unsigned)irq < NR_IRQS), under #if NR_IRQS > 0.
InRange(i) == NR_IRQS > 0 /\ WordLess(ToUnsigned(i), Word(NR_IRQS))

\* irq_dispatch starting with no vector at all.
InitialVector_none == NULL

\* Line 178: the vector a dispatch calls unless it finds a handler.
InitialVector == irq_unexpected_isr

\* Lines 176-183: entry, the locals' initial values, the range check.
enter(m, i, ctx) ==
  [m EXCEPT !.f = [IdleFrame EXCEPT
     !.irq = i, !.context = ctx,
     !.vector = InitialVector, !.arg = NULL, !.ndx = ToUnsigned(i),
     !.trace = << <<"enter", i, ctx, m.task>> >>,
     !.pc = IF InRange(i)
            THEN (IF MINIMAL_VECTORTABLE THEN "irqmap" ELSE "test")
            ELSE AfterLookup]]

\* Lines 186-187: ndx = g_irqmap[irq]; if (ndx < CONFIG_ARCH_NUSER_INTERRUPTS).
read_irqmap(m) ==
  LET n == Word(g_irqmap[m.f.irq])
  IN  [At(m, IF WordLess(n, Word(CONFIG_ARCH_NUSER_INTERRUPTS))
             THEN "test" ELSE AfterLookup,
          <<"read", "g_irqmap", Word(m.f.irq)>>)
        EXCEPT !.f.ndx = n]

\* test_handler loading the slot's arg whether or not a handler is installed.
test_handler_always_arg(m) ==
  At(m, IF m.vec[m.f.ndx[1]].handler # NULL THEN "vector" ELSE "arg",
     <<"read", "handler", m.f.ndx>>)

\* Lines 189 and 198: if (g_irqvector[ndx].handler).  ndx is below the table
\* size here: the guards at lines 183 and 187 were passed.
test_handler(m) ==
  At(m, IF m.vec[m.f.ndx[1]].handler # NULL THEN "vector" ELSE AtIncrCount,
     <<"read", "handler", m.f.ndx>>)

\* Lines 191 and 200: vector = g_irqvector[ndx].handler.
load_vector(m) ==
  [At(m, "arg", <<"read", "handler", m.f.ndx>>)
     EXCEPT !.f.vector = m.vec[m.f.ndx[1]].handler]

\* load_arg leaving arg as it was.
load_arg_skipped(m) == At(m, AtIncrCount, <<"read", "arg", m.f.ndx>>)

\* Lines 192 and 201: arg = g_irqvector[ndx].arg.
load_arg(m) ==
  [At(m, AtIncrCount, <<"read", "arg", m.f.ndx>>)
     EXCEPT !.f.arg = m.vec[m.f.ndx[1]].arg]

\* incr_load taking the counter to be zero.
incr_load_zero(m) ==
  [At(m, "incr_store", <<"read", "count", m.f.ndx>>)
     EXCEPT !.f.tmp = IF HAVE_LONG_LONG THEN ZeroCount ELSE ZeroWord]

\* INCR_COUNT(ndx), lines 62 and 69: the load of count (or of lscount).
incr_load(m) ==
  [At(m, "incr_store", <<"read", "count", m.f.ndx>>)
     EXCEPT !.f.tmp = IF HAVE_LONG_LONG THEN m.vec[m.f.ndx[1]].count
                      ELSE m.vec[m.f.ndx[1]].lscount]

\* incr_store without the carry into mscount.
incr_store_no_carry(m) ==
  IF HAVE_LONG_LONG
  THEN [At(m, AfterLookup, <<"write", "count", m.f.ndx>>)
          EXCEPT !.vec[m.f.ndx[1]].count = Incr(m.f.tmp)]
  ELSE [At(m, AfterLookup, <<"write", "count", m.f.ndx>>)
          EXCEPT !.vec[m.f.ndx[1]].lscount = Incr(m.f.tmp)]

\* INCR_COUNT(ndx), lines 62 and 69: the store of count + 1, or of
\* lscount + 1 followed by the test for the wrap to zero.
incr_store(m) ==
  LET v == Incr(m.f.tmp)
  IN  IF HAVE_LONG_LONG
      THEN [At(m, AfterLookup, <<"write", "count", m.f.ndx>>)
              EXCEPT !.vec[m.f.ndx[1]].count = v]
      ELSE [At(m, IF v = ZeroWord THEN "carry" ELSE AfterLookup,
               <<"write", "count", m.f.ndx>>)
              EXCEPT !.vec[m.f.ndx[1]].lscount = v]

\* INCR_COUNT(ndx), line 71: the load of mscount.
carry_load(m) ==
  [At(m, "carry_store", <<"read", "count", m.f.ndx>>)
     EXCEPT !.f.tmp = m.vec[m.f.ndx[1]].mscount]

\* carry_store storing mscount back as it was.
carry_store_keeps(m) ==
  [At(m, AfterLookup, <<"write", "count", m.f.ndx>>)
     EXCEPT !.vec[m.f.ndx[1]].mscount = m.f.tmp]

\* INCR_COUNT(ndx), line 71: the store of mscount + 1.
carry_store(m) ==
  [At(m, AfterLookup, <<"write", "count", m.f.ndx>>)
     EXCEPT !.vec[m.f.ndx[1]].mscount = Incr(m.f.tmp)]

\* add_irq_randomness handed the table index instead of the IRQ number.
add_irq_randomness_of_ndx(m) ==
  At(m, IF IRQMONITOR THEN "probe_start" ELSE "call",
     <<"add_irq_randomness", m.f.ndx[1]>>)

\* Line 212: add_irq_randomness(irq).
add_irq_randomness(m) ==
  At(m, IF IRQMONITOR THEN "probe_start" ELSE "call",
     <<"add_irq_randomness", m.f.irq>>)

\* What the build's clock may read at the start of a call.
ClockSamples == IF HAVE_PLATFORM_GETTIME THEN TickSamples ELSE TimespecSamples

\* CALL_VECTOR, lines 100 and 117: the clock reading t before the call.
probe_start(m, t) == [m EXCEPT !.f.pc = "call", !.f.start = t]

\* The delta CALL_VECTOR computes from its two readings (lines 102-103, 120).
Elapsed(from, to) ==
  IF HAVE_PLATFORM_GETTIME THEN up_critmon_convert(WordSub(to, from))
  ELSE clock_timespec_subtract(to, from)

\* What the clock reads d nanoseconds after it read t.
ClockAfter(t, d) ==
  IF HAVE_PLATFORM_GETTIME THEN WordAdd(t, d) ELSE TimespecAfter(t, d)

\* The vector called with the table index instead of the IRQ number.
CallArgs_of_ndx(f) == <<f.vector, f.ndx[1], f.context, f.arg>>

\* The arguments the vector is called with (lines 101, 118, 130).
CallArgs(f) == <<f.vector, f.irq, f.context, f.arg>>

\* CALL_VECTOR, lines 101-103, 118-120 and 130: vector(irq, context, arg),
\* then the second clock reading and the delta of the two.  The vector runs
\* for d nanoseconds and leaves task t current.
call_vector(m, t, d) ==
  LET called == [At(m, IF IRQMONITOR THEN "time_load" ELSE "running",
                    <<"call">> \o CallArgs(m.f))
                   EXCEPT !.task = t]
  IN  IF IRQMONITOR
      THEN [called EXCEPT !.f.stop = ClockAfter(m.f.start, d),
                          !.f.delta = Elapsed(m.f.start, ClockAfter(m.f.start, d))]
      ELSE called

\* CALL_VECTOR storing every delta, not only a larger one.
Exceeds_always(d, time) == TRUE

\* Whether CALL_VECTOR replaces the stored time by the delta (lines 104, 121).
Exceeds(d, time) == d.tv_nsec > time

\* CALL_VECTOR, lines 104 and 121: the load of g_irqvector[ndx].time and the
\* comparison.  Nothing checks ndx here: outside the table the load returns
\* whatever lies there, v.
time_load(m, v) ==
  LET time == IF InTable(m.f.ndx) THEN m.vec[m.f.ndx[1]].time ELSE v
  IN  [At(m, IF Exceeds(m.f.delta, time) THEN "time_store" ELSE "running",
          <<"read", "time", m.f.ndx>>)
        EXCEPT !.f.tmp = time, !.f.start = 0, !.f.stop = 0]

\* CALL_VECTOR, lines 106 and 123: g_irqvector[ndx].time = delta.tv_nsec.
\* Outside the table the store lands in memory that is not the table's.
time_store(m) ==
  LET stored == At(m, "running", <<"write", "time", m.f.ndx>>)
  IN  IF InTable(m.f.ndx)
      THEN [stored EXCEPT !.vec[m.f.ndx[1]].time = m.f.delta.tv_nsec]
      ELSE stored

\* Line 224 recording the task that was current when irq_dispatch was entered.
this_task_at_entry(m) == m.f.trace[1][4]

\* The task line 224 records: this_task() at that moment.
this_task(m) == m.task

\* Line 224 writing entry 0 of g_running_tasks[] on every CPU.
record_running_cpu0(m, c) ==
  [At(m, "done", <<"running", c, this_task(m)>>)
     EXCEPT !.running[0] = this_task(m)]

\* Line 224: g_running_tasks[this_cpu()] = this_task(), on CPU c.
record_running(m, c) ==
  [At(m, "done", <<"running", c, this_task(m)>>)
     EXCEPT !.running[c] = this_task(m)]

\* What a dispatch takes from its environment: the clock reading at the
\* start of the call, what the vector does, and what a load outside the
\* table returns.
Inputs(i) ==
  [start : IF IRQMONITOR THEN ClockSamples ELSE {0},
   run : VectorRuns,
   stray : IF IRQMONITOR /\ ~Resolves(i) THEN StrayValues ELSE {0}]

\* One step of irq_dispatch on CPU c.
Step(m, c, in) ==
  CASE m.f.pc = "irqmap" -> read_irqmap(m)
    [] m.f.pc = "test" -> test_handler(m)
    [] m.f.pc = "vector" -> load_vector(m)
    [] m.f.pc = "arg" -> load_arg(m)
    [] m.f.pc = "incr" -> incr_load(m)
    [] m.f.pc = "incr_store" -> incr_store(m)
    [] m.f.pc = "carry" -> carry_load(m)
    [] m.f.pc = "carry_store" -> carry_store(m)
    [] m.f.pc = "random" -> add_irq_randomness(m)
    [] m.f.pc = "probe_start" -> probe_start(m, in.start)
    [] m.f.pc = "call" -> call_vector(m, in.run.task, in.run.d)
    [] m.f.pc = "time_load" -> time_load(m, in.stray)
    [] m.f.pc = "time_store" -> time_store(m)
    [] m.f.pc = "running" -> record_running(m, c)

\* irq_dispatch run from machine m to its return.
RECURSIVE Run(_, _, _)
Run(m, c, in) == IF m.f.pc = "done" THEN m ELSE Run(Step(m, c, in), c, in)

(***************************************************************************)
(* Actions                                                                 *)
(***************************************************************************)
configv == <<cfg, g_irqmap>>
regv == <<reg, nattach>>

\* The history of a call on behalf of IRQ i that ran vector v with argument a
\* for d nanoseconds.
Called(i, v, a, d) ==
  /\ h_ndisp' = IF Resolves(i) THEN [h_ndisp EXCEPT ![SlotOf(i)] = @ + 1]
                ELSE h_ndisp
  /\ h_maxnsec' =
       IF Resolves(i) /\ IRQMONITOR /\ d % NSEC_PER_SEC > h_maxnsec[SlotOf(i)]
       THEN [h_maxnsec EXCEPT ![SlotOf(i)] = d % NSEC_PER_SEC]
       ELSE h_maxnsec
  /\ h_log' = IF Resolves(i)
              THEN [h_log EXCEPT ![SlotOf(i)] = Append(@, <<"call", v, a>>)]
              ELSE h_log

\* irq_dispatch(i, ctx) on CPU c, from entry to the state at its return.
irq_dispatch(c, i, ctx, in) ==
  /\ frame[c].pc = "idle"
  /\ ndispatch < MaxDispatch
  /\ ndispatch' = ndispatch + 1
  /\ LET m == Run(enter(Machine(c), i, ctx), c, in)
     IN  /\ frame' = [frame EXCEPT ![c] = m.f]
         /\ g_irqvector' = m.vec
         /\ g_running_tasks' = m.running
         /\ curtask' = [curtask EXCEPT ![c] = m.task]
         /\ Called(i, m.f.vector, m.f.arg, in.run.d)
  /\ UNCHANGED <<configv, regv, h_count0, h_ticks>>

\* Line 225: irq_dispatch returns; its frame is gone.
irq_return(c) ==
  /\ frame[c].pc = "done"
  /\ frame' = [frame EXCEPT ![c] = IdleFrame]
  /\ UNCHANGED <<configv, g_irqvector, g_running_tasks, curtask, regv,
                 ndispatch, h_count0, h_ndisp, h_maxnsec, h_log, h_ticks>>

(***************************************************************************)
(* The attach/detach path, which publishes in the prescribed order: null   *)
(* the handler, then change arg, then install the handler.                 *)
(***************************************************************************)
Registrations == {<<"isr1", "arg1">>, <<"isr2", "arg2">>, <<NULL, NULL>>}

\* An attach or detach begins: the slot's handler is nulled first.  A detach
\* of a slot that holds nothing is no operation, and no operation begins once
\* no dispatch is left to observe it.
reg_begin(s, r) ==
  /\ reg.pc = "idle"
  /\ nattach < MaxAttach
  /\ ndispatch < MaxDispatch
  /\ r[1] = NULL => g_irqvector[s].handler # NULL
  /\ nattach' = nattach + 1
  /\ reg' = [pc |-> "arg", ndx |-> s, handler |-> r[1], arg |-> r[2]]
  /\ g_irqvector' = [g_irqvector EXCEPT ![s].handler = NULL]
  /\ h_log' = [h_log EXCEPT ![s] =
                 IF g_irqvector[s].handler = NULL THEN @ ELSE Append(@, <<"detach">>)]
  /\ UNCHANGED <<configv, g_running_tasks, curtask, frame, ndispatch,
                 h_count0, h_ndisp, h_maxnsec, h_ticks>>

\* The slot's arg is changed while its handler is null.
reg_arg ==
  /\ reg.pc = "arg"
  /\ g_irqvector' = [g_irqvector EXCEPT ![reg.ndx].arg = reg.arg]
  /\ reg' = [reg EXCEPT !.pc = IF reg.handler = NULL THEN "idle" ELSE "handler"]
  /\ UNCHANGED <<configv, g_running_tasks, curtask, frame, ndispatch, nattach,
                 h_count0, h_ndisp, h_maxnsec, h_log, h_ticks>>

\* The handler is installed last.
reg_handler ==
  /\ reg.pc = "handler"
  /\ g_irqvector' = [g_irqvector EXCEPT ![reg.ndx].handler = reg.handler]
  /\ reg' = [reg EXCEPT !.pc = "idle"]
  /\ h_log' = [h_log EXCEPT ![reg.ndx] = Append(@, <<"attach", reg.handler, reg.arg>>)]
  /\ UNCHANGED <<configv, g_running_tasks, curtask, frame, ndispatch, nattach,
                 h_count0, h_ndisp, h_maxnsec, h_ticks>>

(***************************************************************************)
(* Specification: dispatches are serialized (one irq_dispatch at a time,   *)
(* on any CPU), and the table is re-registered only between dispatches.    *)
(***************************************************************************)
Quiescent == \A c \in CPUS : frame[c].pc = "idle"

Next ==
  \/ \E c \in CPUS, i \in Irqs :
       \E in \in Inputs(i) : Quiescent /\ irq_dispatch(c, i, Context(c), in)
  \/ \E c \in CPUS : irq_return(c)
  \/ \E s \in Slots, r \in Registrations : Quiescent /\ reg_begin(s, r)
  \/ Quiescent /\ reg_arg
  \/ Quiescent /\ reg_handler

Spec == Init /\ [][Next]_vars

(***************************************************************************)
(* Vocabulary of the properties                                            *)
(***************************************************************************)
\* A finished dispatch on CPU c, still in its frame.
Done(c) == frame[c].pc = "done"
\* What irq_dispatch was called with on CPU c, and the task current then.
IrqOf(c) == frame[c].trace[1][2]
CtxOf(c) == frame[c].trace[1][3]
TaskAtEntry(c) == frame[c].trace[1][4]

\* The events of a trace with a given tag, in order.
Events(tr, tag) == SelectSeq(tr, LAMBDA e : e[1] = tag)
\* The positions of a trace that hold an event with a given tag.
Positions(tr, tag) == { k \in 1 .. Len(tr) : tr[k][1] = tag }
\* The fields of struct irq_info_s.
SlotFields == {"handler", "arg", "count", "time"}
\* The accesses of a trace to a field of g_irqvector[], at any index.
VectorAccesses(tr) ==
  SelectSeq(tr, LAMBDA e : e[1] \in {"read", "write"} /\ e[2] \in SlotFields)

\* The one call of the unexpected-ISR sentinel for (irq, ctx).
SentinelCall(i, ctx) == <<"call", irq_unexpected_isr, i, ctx, NULL>>

\* A slot's logical count, least significant limb first.
Logical(slot) ==
  IF HAVE_LONG_LONG THEN slot.count ELSE slot.lscount \o slot.mscount

\* n + k on naturals of any size (limbs, least significant first).
RECURSIVE BigPlus(_, _)
BigPlus(n, k) ==
  IF n = <<>> THEN (IF k = 0 THEN <<>> ELSE <<k % Limb>> \o BigPlus(<<>>, k \div Limb))
  ELSE <<(Head(n) + k) % Limb>> \o BigPlus(Tail(n), (Head(n) + k) \div Limb)
\* n + k modulo 2^64.
Plus64(n, k) == SubSeq(BigPlus(n, k), 1, 4)

\* A step that is one whole irq_dispatch on CPU c.
Dispatched(c) == frame[c].pc = "idle" /\ frame'[c].pc = "done"

(***************************************************************************)
(* Properties                                                              *)
(***************************************************************************)

\* C1: a dispatch of an irq in [0, NR_IRQS) that resolves to a slot with a
\* non-null handler calls that handler exactly once, with (irq, ctx, the
\* slot's arg) -- the raw IRQ number -- and calls nothing else.
C1_RegisteredHandlerCalledOnce ==
  \A c \in CPUS :
    (Done(c) /\ Resolves(IrqOf(c)) /\ g_irqvector[SlotOf(IrqOf(c))].handler # NULL)
    => Events(frame[c].trace, "call") =
         << <<"call", g_irqvector[SlotOf(IrqOf(c))].handler, IrqOf(c), CtxOf(c),
              g_irqvector[SlotOf(IrqOf(c))].arg>> >>

\* C1 witness: a registered handler was dispatched through the IRQ map, the
\* IRQ number differing from the table index.
C1_Witness ==
  \E c \in CPUS :
    /\ Done(c) /\ Resolves(IrqOf(c))
    /\ SlotOf(IrqOf(c)) # IrqOf(c)
    /\ g_irqvector[SlotOf(IrqOf(c))].handler \in Handlers
    /\ Len(Events(frame[c].trace, "call")) = 1

\* C2: every dispatch whose vector returns, whatever the irq, writes
\* g_running_tasks[this_cpu()] exactly once, after the call, with the task
\* that is current after the vector returned.
C2_RunningTaskRecorded ==
  \A c \in CPUS :
    Done(c) =>
      LET tr == frame[c].trace
      IN  /\ Positions(tr, "running") = {Len(tr)}
          /\ tr[Len(tr)] = <<"running", c, curtask[c]>>
          /\ \A k \in Positions(tr, "call") : k < Len(tr)
          /\ g_running_tasks[c] = curtask[c]

\* C2 witness: an out-of-range dispatch whose vector switched the task; the
\* new task is the one recorded.
C2_Witness ==
  \E c \in CPUS :
    /\ Done(c) /\ IrqOf(c) = NR_IRQS
    /\ TaskAtEntry(c) # curtask[c]
    /\ g_running_tasks[c] = curtask[c]

\* C3 as claimed: with monitoring, a slot's logical count is its initial value
\* plus the number of dispatches that resolved to it.
C3_CountIsInitialPlusK ==
  \A s \in Slots :
    IRQMONITOR => Logical(g_irqvector[s]) = BigPlus(h_count0[s], h_ndisp[s])

\* C3 as amended: with monitoring, a slot's logical count is its initial value
\* plus the number of dispatches that resolved to it, modulo 2^64.
C3_CountIsInitialPlusKMod64 ==
  \A s \in Slots :
    IRQMONITOR => Logical(g_irqvector[s]) = Plus64(h_count0[s], h_ndisp[s])

\* C3 witness: two dispatches to a slot whose two-word counter was one short
\* of 2^64; both words wrapped and the count is 1.
C3_Witness ==
  \E s \in Slots :
    /\ IRQMONITOR /\ ~HAVE_LONG_LONG
    /\ h_count0[s] = <<Limb - 1, Limb - 1, Limb - 1, Limb - 1>>
    /\ h_ndisp[s] = 2
    /\ g_irqvector[s].lscount = <<1, 0>> /\ g_irqvector[s].mscount = ZeroWord

\* C4: with monitoring, a slot's time never decreases and is the maximum of
\* its initial value and the tv_nsec of every call delta of the slot.
C4_TimeIsMonotonicMax ==
  [][\A s \in Slots :
       /\ g_irqvector'[s].time >= g_irqvector[s].time
       /\ IRQMONITOR => g_irqvector'[s].time = h_maxnsec'[s]]_vars

\* C4 witness: a delta of 250 ns, then one of 1 s + 100 ns: time stays 250.
C4_Witness ==
  \E c \in CPUS :
    /\ Done(c) /\ IRQMONITOR /\ Resolves(IrqOf(c))
    /\ frame[c].delta = [tv_sec |-> 1, tv_nsec |-> 100]
    /\ g_irqvector[SlotOf(IrqOf(c))].time = 250
    /\ h_ndisp[SlotOf(IrqOf(c))] = 2

\* C5: with the minimal vector table, a dispatch of an irq in [0, NR_IRQS)
\* whose map entry is >= CONFIG_ARCH_NUSER_INTERRUPTS calls the sentinel and
\* accesses no field of g_irqvector[] at any index, in every configuration.
C5_UnmappedTouchesNoSlot ==
  \A c \in CPUS :
    (/\ Done(c) /\ MINIMAL_VECTORTABLE
     /\ 0 <= IrqOf(c) /\ IrqOf(c) < NR_IRQS
     /\ g_irqmap[IrqOf(c)] >= CONFIG_ARCH_NUSER_INTERRUPTS)
    => /\ Events(frame[c].trace, "call") = <<SentinelCall(IrqOf(c), CtxOf(c))>>
       /\ VectorAccesses(frame[c].trace) = <<>>

\* C6: a dispatch of an irq outside [0, NR_IRQS) calls the sentinel once with
\* (irq, ctx, NULL), accesses no field of g_irqvector[] at any index, and
\* updates the running task, with monitoring or without.
C6_OutOfRangeTouchesNoSlot ==
  \A c \in CPUS :
    (Done(c) /\ (IrqOf(c) < 0 \/ IrqOf(c) >= NR_IRQS))
    => /\ Events(frame[c].trace, "call") = <<SentinelCall(IrqOf(c), CtxOf(c))>>
       /\ VectorAccesses(frame[c].trace) = <<>>
       /\ g_running_tasks[c] = curtask[c]

\* C7 as claimed: a dispatch of an irq outside [0, NR_IRQS) invokes no handler
\* at all, and the running task is still recorded.
C7_OutOfRangeCallsNothing ==
  \A c \in CPUS :
    (Done(c) /\ (IrqOf(c) < 0 \/ IrqOf(c) >= NR_IRQS))
    => /\ Events(frame[c].trace, "call") = <<>>
       /\ g_running_tasks[c] = curtask[c]

\* C7 as amended: a dispatch of an irq outside [0, NR_IRQS) invokes no
\* registered handler but does invoke the unexpected-ISR sentinel, once, and
\* the running task is still recorded.
C7_OutOfRangeCallsOnlySentinel ==
  \A c \in CPUS :
    (Done(c) /\ (IrqOf(c) < 0 \/ IrqOf(c) >= NR_IRQS))
    => /\ \A k \in Positions(frame[c].trace, "call") :
            frame[c].trace[k][2] = irq_unexpected_isr
       /\ Cardinality(Positions(frame[c].trace, "call")) = 1
       /\ g_running_tasks[c] = curtask[c]

\* C7 witness: a negative irq was dispatched while a handler is registered.
C7_Witness ==
  \E c \in CPUS :
    /\ Done(c) /\ IrqOf(c) < 0
    /\ \E s \in Slots : g_irqvector[s].handler \in Handlers
    /\ Len(Events(frame[c].trace, "call")) = 1

\* C8: a dispatch of an irq that resolves to a slot whose handler is null
\* calls the sentinel once with (irq, ctx, NULL), not the slot's arg, and with
\* monitoring the slot's count grows by one.
C8_UnregisteredGoesToSentinel ==
  [][\A c \in CPUS :
       (/\ Dispatched(c) /\ Resolves(IrqOf(c)')
        /\ g_irqvector[SlotOf(IrqOf(c)')].handler = NULL)
       => /\ Events(frame'[c].trace, "call") = <<SentinelCall(IrqOf(c)', CtxOf(c)')>>
          /\ IRQMONITOR =>
               Logical(g_irqvector'[SlotOf(IrqOf(c)')]) =
                 Plus64(Logical(g_irqvector[SlotOf(IrqOf(c)')]), 1)]_vars

\* C8 witness: the slot held an arg but no handler, and the sentinel was
\* called with NULL.
C8_Witness ==
  \E c \in CPUS :
    /\ Done(c) /\ IRQMONITOR /\ Resolves(IrqOf(c))
    /\ g_irqvector[SlotOf(IrqOf(c))].handler = NULL
    /\ g_irqvector[SlotOf(IrqOf(c))].arg \in Args
    /\ Events(frame[c].trace, "call") = <<SentinelCall(IrqOf(c), CtxOf(c))>>

C10_RandomnessBeforeCall ==
  \A c \in CPUS :
    (Done(c) /\ COLLECT_IRQ_RANDOMNESS)
    => LET tr == frame[c].trace
       IN  /\ Events(tr, "add_irq_randomness") = << <<"add_irq_randomness", IrqOf(c)>> >>
           /\ \A p \in Positions(tr, "add_irq_randomness") :
                \A q \in Positions(tr, "call") : p < q
           /\ Positions(tr, "call") # {}

\* C10 witness: a negative irq was offered to the pool as it is.
C10_Witness ==
  \E c \in CPUS :
    /\ Done(c) /\ COLLECT_IRQ_RANDOMNESS /\ IrqOf(c) = -1
    /\ \E p \in Positions(frame[c].trace, "add_irq_randomness") :
         frame[c].trace[p] = <<"add_irq_randomness", -1>>

\* C11: for every irq and every IRQ map, each index with which a dispatch
\* reads handler or arg, and the index with which CALL_VECTOR accounts the
\* call in g_irqvector[ndx].time, is below the table's length.
C11_IndexAlwaysInTable ==
  \A c \in CPUS :
    Done(c) =>
      \A k \in 1 .. Len(frame[c].trace) :
        LET e == frame[c].trace[k]
        IN  (e[1] \in {"read", "write"} /\ e[2] \in SlotFields) => InTable(e[3])

\* count++ of the wide counter applied k times to n.
RECURSIVE WideCount(_, _)
WideCount(n, k) == IF k = 0 THEN n ELSE WideCount(Incr(n), k - 1)

\* C15: the two-word counter refines the wide one: after every dispatch
\* mscount * 2^32 + lscount is what the wide counter holds after the same
\* dispatches from the same start, and in a dispatch mscount changes (by one)
\* exactly when lscount wraps from all-ones to zero.
C15_TwoWordRefinesWide ==
  [][\A c \in CPUS :
       (/\ Dispatched(c) /\ IRQMONITOR /\ ~HAVE_LONG_LONG
        /\ Resolves(IrqOf(c)'))
       => LET s == SlotOf(IrqOf(c)')
              old == g_irqvector[s]
              new == g_irqvector'[s]
          IN  /\ new.lscount \o new.mscount = WideCount(h_count0[s], h_ndisp'[s])
              /\ IF old.lscount = MaxWord
                 THEN /\ new.lscount = ZeroWord
                      /\ new.mscount = SubSeq(BigPlus(old.mscount, 1), 1, 2)
                 ELSE /\ new.lscount = BigPlus(old.lscount, 1)
                      /\ new.mscount = old.mscount]_vars

\* C15 witness: from (lscount = 0xFFFFFFFF, mscount = 0) one dispatch left
\* (0, 1).
C15_Witness ==
  \E c \in CPUS :
    /\ Done(c) /\ IRQMONITOR /\ ~HAVE_LONG_LONG /\ Resolves(IrqOf(c))
    /\ h_count0[SlotOf(IrqOf(c))] = <<Limb - 1, Limb - 1, 0, 0>>
    /\ h_ndisp[SlotOf(IrqOf(c))] = 1
    /\ g_irqvector[SlotOf(IrqOf(c))].lscount = ZeroWord
    /\ g_irqvector[SlotOf(IrqOf(c))].mscount = <<1, 0>>

\* C16: the writes of a dispatch are confined to the count and time fields of
\* the one slot its irq resolves to: it writes no handler, no arg, no entry of
\* g_irqmap, and nothing at any other index of g_irqvector[].
C16_WritesConfinedToResolvedSlot ==
  \A c \in CPUS :
    Done(c) =>
      \A k \in 1 .. Len(frame[c].trace) :
        LET e == frame[c].trace[k]
        IN  e[1] = "write" =>
              /\ e[2] \in {"count", "time"}
              /\ Resolves(IrqOf(c))
              /\ e[3] = Word(SlotOf(IrqOf(c)))

(***************************************************************************)
(* irq_dispatch observed step by step: every access to shared memory is a  *)
(* step of its own, so that other CPUs (another dispatch, the attach/detach*)
(* path) can run between any two of them, and a vector need not return.    *)
(***************************************************************************)
\* What a vector may do in a dispatch observed step by step: return at once
\* with the clock where it was (the timer is not running yet), or run for 250
\* clock units and switch the task.
StepRuns ==
  { [d |-> 0, task |-> "idle"],
    [d |-> 250, task |-> "task1"] }

\* Lines 189-191 and 198-200 in a build that keeps the tested handler in a
\* register: one load of g_irqvector[ndx].handler serves the test and the
\* assignment to vector.  The two reads are plain (not volatile) loads, so a
\* build may merge them or not.
test_and_load(m) ==
  IF m.vec[m.f.ndx[1]].handler # NULL
  THEN [At(m, "arg", <<"read", "handler", m.f.ndx>>)
          EXCEPT !.f.vector = m.vec[m.f.ndx[1]].handler]
  ELSE At(m, AtIncrCount, <<"read", "handler", m.f.ndx>>)

\* What the step at m's position takes from its environment.
Choices(m, runs) ==
  [start : IF m.f.pc = "probe_start" THEN ClockSamples ELSE {0},
   run : IF m.f.pc = "call" THEN runs ELSE {[d |-> 0, task |-> m.task]},
   stray : IF m.f.pc = "time_load" /\ ~InTable(m.f.ndx) THEN StrayValues ELSE {0},
   merged : IF m.f.pc = "test" THEN BOOLEAN ELSE {FALSE}]

\* One step of irq_dispatch on CPU c in either build.
StepOf(m, c, in) ==
  IF m.f.pc = "test" /\ in.merged THEN test_and_load(m) ELSE Step(m, c, in)

\* Whether CPU c is inside irq_dispatch.
InFlight(c) == frame[c].pc \notin {"idle", "done"}

\* Whether a dispatch of IRQ i would run while another CPU is inside a
\* dispatch that resolved to the same slot.
Overlaps(c, i) ==
  \E o \in CPUS \ {c} :
    /\ InFlight(o) /\ Resolves(frame[o].irq)
    /\ SlotOf(frame[o].irq) = SlotOf(i)

\* Lines 176-183 on CPU c: irq_dispatch(i, ctx) is entered.
begin(c, i, ctx) ==
  /\ frame[c].pc = "idle"
  /\ ndispatch < MaxDispatch
  /\ ndispatch' = ndispatch + 1
  /\ frame' = [frame EXCEPT ![c] = enter(Machine(c), i, ctx).f]
  /\ h_ndisp' = IF Resolves(i) THEN [h_ndisp EXCEPT ![SlotOf(i)] = @ + 1]
                ELSE h_ndisp
  /\ h_log' = IF Resolves(i) /\ Overlaps(c, i)
              THEN [h_log EXCEPT ![SlotOf(i)] = Append(@, <<"overlap">>)]
              ELSE h_log
  /\ h_ticks' = [h_ticks EXCEPT ![c] = 0]
  /\ UNCHANGED <<configv, g_irqvector, g_running_tasks, curtask, regv,
                 h_count0, h_maxnsec>>

\* The history of the call CPU c makes from frame f, the vector running for d.
StepCalled(c, f, d) ==
  /\ h_ticks' = [h_ticks EXCEPT ![c] = d]
  /\ h_maxnsec' =
       IF Resolves(f.irq) /\ IRQMONITOR /\ d % NSEC_PER_SEC > h_maxnsec[SlotOf(f.irq)]
       THEN [h_maxnsec EXCEPT ![SlotOf(f.irq)] = d % NSEC_PER_SEC]
       ELSE h_maxnsec
  /\ h_log' = IF Resolves(f.irq)
              THEN [h_log EXCEPT ![SlotOf(f.irq)] = Append(@, <<"call", f.vector, f.arg>>)]
              ELSE h_log

\* The next step of the dispatch on CPU c.
step(c, in) ==
  /\ frame[c].pc \notin {"idle", "done", "hung"}
  /\ LET m == StepOf(Machine(c), c, in)
     IN  /\ frame' = [frame EXCEPT ![c] = m.f]
         /\ g_irqvector' = m.vec
         /\ g_running_tasks' = m.running
         /\ curtask' = [curtask EXCEPT ![c] = m.task]
  /\ IF frame[c].pc = "call"
     THEN StepCalled(c, frame[c], in.run.d)
     ELSE UNCHANGED <<h_ticks, h_maxnsec, h_log>>
  /\ UNCHANGED <<configv, regv, ndispatch, h_count0, h_ndisp>>

\* Lines 101, 118, 130 with a vector that never returns (it panics, or
\* switches context away for good): nothing after the call is executed.
hang(c) ==
  /\ frame[c].pc = "call"
  /\ frame' = [frame EXCEPT ![c] =
                 At(Machine(c), "hung", <<"call">> \o CallArgs(frame[c])).f]
  /\ h_log' = IF Resolves(frame[c].irq)
              THEN [h_log EXCEPT ![SlotOf(frame[c].irq)] =
                      Append(@, <<"call", frame[c].vector, frame[c].arg>>)]
              ELSE h_log
  /\ UNCHANGED <<configv, g_irqvector, g_running_tasks, curtask, regv,
                 ndispatch, h_count0, h_ndisp, h_maxnsec, h_ticks>>

(***************************************************************************)
(* SpecSteps: one dispatch, observed step by step, with the attach/detach  *)
(* path running on another CPU before, after and at any point of it.       *)
(***************************************************************************)
\* Slot 0 as the attach path left it before observation starts: empty, or
\* holding (isr1, arg1).
InitSteps ==
  /\ cfg \in Configs
  /\ g_irqmap \in IF MINIMAL_VECTORTABLE THEN IrqMaps
                  ELSE {[i \in 0 .. (NR_IRQS - 1) |-> i]}
  /\ h_count0 \in { f \in [Slots -> CountSamples] :
                      /\ \A s \in Slots : s # 0 => f[s] = ZeroCount
                      /\ ~IRQMONITOR => f[0] = ZeroCount }
  /\ \E r \in {<<NULL, NULL>>, <<"isr1", "arg1">>} :
       /\ g_irqvector = [s \in Slots |->
            IF s = 0
            THEN [SlotWithCount(h_count0[s]) EXCEPT !.handler = r[1], !.arg = r[2]]
            ELSE SlotWithCount(h_count0[s])]
       /\ h_log = [s \in Slots |->
            IF s = 0 /\ r[1] # NULL THEN << <<"attach", r[1], r[2]>> >> ELSE <<>>]
  /\ g_running_tasks = [c \in CPUS |-> "idle"]
  /\ curtask = [c \in CPUS |-> "idle"]
  /\ reg = [pc |-> "idle", ndx |-> 0, handler |-> NULL, arg |-> NULL]
  /\ frame = [c \in CPUS |-> IdleFrame]
  /\ ndispatch = 0
  /\ nattach = 0
  /\ h_ndisp = [s \in Slots |-> 0]
  /\ h_maxnsec = [s \in Slots |-> 0]
  /\ h_ticks = [c \in CPUS |-> 0]

NextSteps ==
  \/ \E c \in CPUS, i \in Irqs : ndispatch = 0 /\ begin(c, i, Context(c))
  \/ \E c \in CPUS : \E in \in Choices(Machine(c), StepRuns) : step(c, in)
  \/ \E c \in CPUS : hang(c)
  \/ \E c \in CPUS : irq_return(c)
  \/ \E s \in Slots, r \in Registrations : reg_begin(s, r)
  \/ reg_arg
  \/ reg_handler

SpecSteps == InitSteps /\ [][NextSteps]_vars

\* The vector of the dispatch on CPU c has been invoked and never returns.
Hung(c) == frame[c].pc = "hung"

\* C12: in a dispatch that resolves to a slot, with monitoring, the count is
\* incremented before the vector is invoked: once a handler that never
\* returns has started, the count includes this dispatch, and neither the
\* running-task write nor the time update of the dispatch has happened.
C12_CountedBeforeCall ==
  \A c \in CPUS :
    (Hung(c) /\ IRQMONITOR /\ Resolves(IrqOf(c)))
    => LET tr == frame[c].trace
           s == SlotOf(IrqOf(c))
       IN  /\ Logical(g_irqvector[s]) = Plus64(h_count0[s], h_ndisp[s])
           /\ \E w \in 1 .. Len(tr) :
                /\ tr[w][1] = "write" /\ tr[w][2] = "count"
                /\ \A q \in Positions(tr, "call") : w < q
           /\ Positions(tr, "running") = {}
           /\ \A k \in 1 .. Len(tr) : tr[k][1] \in {"read", "write"} => tr[k][2] # "time"
           /\ g_irqvector[s].time = 0
           /\ g_running_tasks[c] = TaskAtEntry(c)

\* C12 witness: a registered handler was invoked and never returned; the
\* two-word count carried into mscount before the call.
C12_Witness ==
  \E c \in CPUS :
    /\ Hung(c) /\ IRQMONITOR /\ ~HAVE_LONG_LONG /\ Resolves(IrqOf(c))
    /\ frame[c].vector \in Handlers
    /\ h_count0[SlotOf(IrqOf(c))] = <<Limb - 1, Limb - 1, 0, 0>>
    /\ g_irqvector[SlotOf(IrqOf(c))].mscount = <<1, 0>>

\* C13: with the attach/detach path publishing in the prescribed order on
\* another CPU, every handler a dispatch calls is called with the arg it was
\* registered with: the (handler, arg) of the call is a pair some attach
\* installed in the slot.
C13_HandlerCalledWithItsArg ==
  \A c \in CPUS :
    \A q \in Positions(frame[c].trace, "call") :
      LET e == frame[c].trace[q]
      IN  e[2] \in Handlers =>
            \E k \in 1 .. Len(h_log[SlotOf(IrqOf(c))]) :
              h_log[SlotOf(IrqOf(c))][k] = <<"attach", e[2], e[5]>>

\* C18: with the tick clock, the elapsed count handed to the conversion is the
\* number of ticks the clock advanced during the call, also when the counter
\* wrapped between the two readings; and when both readings are zero the
\* delta is zero and the slot's time is not written.
C18_ElapsedIsWrapAgnostic ==
  [][\A c \in CPUS :
       (frame[c].pc = "time_load" /\ HAVE_PLATFORM_GETTIME)
       => /\ frame[c].delta = up_critmon_convert(Word(h_ticks[c]))
          /\ (/\ frame[c].start = ZeroWord /\ frame[c].stop = ZeroWord
              /\ frame'[c] # frame[c])
             => /\ frame[c].delta = [tv_sec |-> 0, tv_nsec |-> 0]
                /\ frame'[c].pc = "running"
                /\ g_irqvector' = g_irqvector]_vars

\* C18 witness: the first reading was 100 ticks below the wrap, the second is
\* 150, and the delta is 250 ns.
C18_Witness ==
  \E c \in CPUS :
    /\ frame[c].pc = "time_load" /\ HAVE_PLATFORM_GETTIME
    /\ frame[c].start = <<Limb - 100, Limb - 1>>
    /\ frame[c].stop = <<150, 0>>
    /\ frame[c].delta = [tv_sec |-> 0, tv_nsec |-> 250]

\* C19: irq_dispatch never calls a null vector, whatever a detach on another
\* CPU does between the test of the handler field and its re-read.
C19_NeverCallsNull ==
  \A c \in CPUS :
    \A q \in Positions(frame[c].trace, "call") : frame[c].trace[q][2] # NULL

(***************************************************************************)
(* SpecSMP: dispatches on several CPUs at once, interleaved step by step.  *)
(* The platform lets no two CPUs service the same IRQ line in parallel.    *)
(***************************************************************************)
\* A minimal-vector-table map that sends every IRQ line to slot 0.
SharedIrqMap == [i \in 0 .. (NR_IRQS - 1) |-> 0]

\* The platform's guarantee: no other CPU is servicing line i.
LineFree(c, i) == \A o \in CPUS \ {c} : InFlight(o) => frame[o].irq # i

InitSMP ==
  /\ cfg \in Configs
  /\ g_irqmap \in IF MINIMAL_VECTORTABLE THEN IrqMaps \cup {SharedIrqMap}
                  ELSE {[i \in 0 .. (NR_IRQS - 1) |-> i]}
  /\ h_count0 \in { f \in [Slots -> CountSamples] :
                      /\ \A s \in Slots : s # 0 => f[s] = ZeroCount
                      /\ ~IRQMONITOR => f[0] = ZeroCount }
  /\ g_irqvector = [s \in Slots |-> SlotWithCount(h_count0[s])]
  /\ g_running_tasks = [c \in CPUS |-> "idle"]
  /\ curtask = [c \in CPUS |-> "idle"]
  /\ reg = [pc |-> "idle", ndx |-> 0, handler |-> NULL, arg |-> NULL]
  /\ frame = [c \in CPUS |-> IdleFrame]
  /\ ndispatch = 0
  /\ nattach = 0
  /\ h_ndisp = [s \in Slots |-> 0]
  /\ h_maxnsec = [s \in Slots |-> 0]
  /\ h_log = [s \in Slots |-> <<>>]
  /\ h_ticks = [c \in CPUS |-> 0]

NextSMP ==
  \/ \E c \in CPUS, i \in Irqs : LineFree(c, i) /\ begin(c, i, Context(c))
  \/ \E c \in CPUS : \E in \in Choices(Machine(c), VectorRuns) : step(c, in)
  \/ \E c \in CPUS : irq_return(c)

SpecSMP == InitSMP /\ [][NextSMP]_vars

\* No CPU is inside irq_dispatch.
AllReturned == \A c \in CPUS : ~InFlight(c)

\* No two dispatches that resolved to slot s ever ran in parallel.
NeverOverlapped(s) ==
  \A k \in 1 .. Len(h_log[s]) : h_log[s][k] # <<"overlap">>

\* C14 as claimed: when no two CPUs service the same IRQ line in parallel,
\* for every IRQ map no increment is lost (a slot's count is its initial one
\* plus the dispatches that resolved to it) and no time maximum is
\* overwritten by a smaller value.
C14_RaceFreePerLine ==
  \A s \in Slots :
    (AllReturned /\ IRQMONITOR)
    => /\ Logical(g_irqvector[s]) = Plus64(h_count0[s], h_ndisp[s])
       /\ g_irqvector[s].time = h_maxnsec[s]

\* C14 as amended: when no two CPUs run in parallel dispatches that resolve to
\* the same slot, no increment of the slot is lost (modulo 2^64) and its time
\* maximum is not overwritten by a smaller value.
C14_RaceFreePerSlot ==
  \A s \in Slots :
    (AllReturned /\ IRQMONITOR /\ NeverOverlapped(s))
    => /\ Logical(g_irqvector[s]) = Plus64(h_count0[s], h_ndisp[s])
       /\ g_irqvector[s].time = h_maxnsec[s]

\* C14 witness: two CPUs have dispatched two IRQ lines that resolve to two
\* slots; each slot has its increment and its own maximum.
C14_Witness ==
  /\ IRQMONITOR /\ AllReturned
  /\ Done(0) /\ Done(1)
  /\ Resolves(IrqOf(0)) /\ Resolves(IrqOf(1))
  /\ SlotOf(IrqOf(0)) # SlotOf(IrqOf(1))
  /\ \A s \in Slots : h_ndisp[s] = 1 /\ NeverOverlapped(s)
  /\ g_irqvector[SlotOf(IrqOf(0))].time = 250
  /\ g_irqvector[SlotOf(IrqOf(1))].time = 100

\* C17: a dispatch on CPU c writes only entry c of g_running_tasks[]: no step
\* of a dispatch on c changes another CPU's entry, and whenever c is not
\* inside a dispatch its entry holds the task current on c.
C17_OwnRunningEntryOnly ==
  [][\A c \in CPUS :
       /\ frame'[c] # frame[c] =>
            \A o \in CPUS \ {c} : g_running_tasks'[o] = g_running_tasks[o]
       /\ ~InFlight(c)' => g_running_tasks'[c] = curtask'[c]]_vars

\* C17 witness: both CPUs have dispatched and hold different tasks.
C17_Witness ==
  /\ Done(0) /\ Done(1)
  /\ g_running_tasks[0] = "idle" /\ curtask[0] = "idle"
  /\ g_running_tasks[1] = "task1" /\ curtask[1] = "task1"

=============================================================================
